---- MODULE Spec2Model ----
(***************************************************************************)
(* The scroll-timing and pause-marker engine of the teleprompter display   *)
(* (TeleprompterDisplay in src/src/components/EditorPanel.jsx, lines       *)
(* 343-602): React state, refs, the viewport's scroll offset and the       *)
(* browser's queue of animation-frame callbacks.                           *)
(*                                                                         *)
(* Units.  Timestamps are whole seconds (the code divides the frame        *)
(* timestamps by 1000 before using them), positions are pixels, speeds are *)
(* pixels per second.  The code uses timestamps only in differences and in *)
(* null tests, so the clock origin is moved forward after every frame      *)
(* (Rebase): the state space stays finite without a horizon on time.       *)
(*                                                                         *)
(* One action is one event-loop task: a user command or one animation      *)
(* frame, together with the React commit it causes (state updaters, then   *)
(* the effect cleanups and effect bodies whose dependencies changed).      *)
(***************************************************************************)
EXTENDS Integers, Sequences, FiniteSets, TLC

VARIABLES
    \* React state (useState, lines 344-347)
    isPlaying, isPaused, speed, pauseTimeRemaining,
    \* refs (useRef, lines 349-355); displayRef stands for displayRef and
    \* contentRef, which React attaches and detaches together
    displayRef, scrollPositionRef, animationFrameRef, lastTimeRef, pauseStartTimeRef,
    currentPauseMarkerRef,
    \* the element currentPauseMarkerRef holds: the content it was rendered
    \* from, and whether a later render has replaced it in the document
    markerDoc, markerStale,
    \* the host: viewport offset, pending frame callbacks, frame clock, content
    scrollTop, rafQueue, now, content,
    \* App (src/unnamed/part_000): the script and the localStorage item
    appContent, storage,
    \* history variables (observers, they never influence the program)
    lastOp, lastInput, cmdFree, opened, playTop, fresh, inRun, basePos, elapsed,
    endedElapsed, endedDuration, firstTick, lastDt, openedDuration,
    \* the marker of the session during which the content was re-rendered
    \* with its markers in place, until that marker is met again
    rerendered

progVars == <<isPlaying, isPaused, speed, pauseTimeRemaining, displayRef,
              scrollPositionRef,
              animationFrameRef, lastTimeRef, pauseStartTimeRef,
              currentPauseMarkerRef, markerDoc, markerStale, scrollTop,
              rafQueue, now, content>>
histVars == <<lastOp, lastInput, cmdFree, opened, playTop, fresh, inRun, basePos,
              elapsed, endedElapsed, endedDuration, firstTick, lastDt,
              openedDuration, rerendered>>
appVars == <<appContent, storage>>
vars == <<progVars, histVars, appVars>>

(***************************************************************************)
(* Bounds of the model                                                     *)
(***************************************************************************)
\* longest interval between two animation frames, in seconds
MaxDt == 2
\* the per-marker count of opened sessions saturates here
SessionCap == 2
\* play is only pressed while the position is within MaxPos (each play
\* command at the end of the document moves the position further, without
\* limit)
MaxPos == 300
\* scripts are texts of at most MaxLen characters
MaxLen == 3
\* localStorage takes items of at most Quota characters
Quota == 2

(***************************************************************************)
(* Program constants                                                       *)
(***************************************************************************)
NULL == 0
DEFAULT_SPEED == 60
MIN_SPEED == 10
MAX_SPEED == 200
SPEED_STEP == 10
lineHeight == 24
JUMP_LINES == 5
FALLBACK_PAUSE == 3
FRAME_ID == 1
\* the value of displayRef.current while the display is in the document
ELEMENT == 1

Min2(a, b) == IF a <= b THEN a ELSE b
Max2(a, b) == IF a >= b THEN a ELSE b

(***************************************************************************)
(* App: the script, a text (a sequence of characters), and the item kept   *)
(* under STORAGE_KEY in localStorage.                                      *)
(***************************************************************************)
Alphabet == {"a", "b", "c"}
Scripts == UNION {[1..n -> Alphabet] : n \in 0..MaxLen}
\* the default sample content (part_000 lines 16-22)
DEFAULT_CONTENT == <<"w">>
\* localStorage.getItem: null when there is no item
NoItem == [present |-> FALSE, value |-> <<>>]
Item(text) == [present |-> TRUE, value |-> text]

\* the lazy initializer of useState, part_000 lines 10-23 ("" is falsy)
LoadContent(item) ==
    IF item.present /\ item.value # <<>> THEN item.value ELSE DEFAULT_CONTENT

\* localStorage.setItem throws QuotaExceededError for an item that is too
\* large; the effect catches it (part_000 lines 28-37)
SetItem(item, text) == IF Len(text) <= Quota THEN Item(text) ELSE item

\* the save effect, part_000 lines 26-39
SaveEffect(item, text) == IF text # <<>> THEN SetItem(item, text) ELSE item

(***************************************************************************)
(* Rendered content.  A layout gives the display container's scrollHeight  *)
(* and clientHeight and the .pause-marker elements in document order, each *)
(* with its offset in the scrolled content, its height and its data-pause  *)
(* attribute (num: parseFloat yields a number; val: that number).          *)
(* A marker's identity is its element: its index in the layout.            *)
(***************************************************************************)
Attr(n) == [num |-> TRUE, val |-> n]
\* an attribute for which parseFloat yields NaN (missing, empty, "abc")
NotANumber == [num |-> FALSE, val |-> 0]

Contents == <<
    [scrollHeight |-> 360, clientHeight |-> 200, markers |-> <<>>],
    [scrollHeight |-> 360, clientHeight |-> 200,
     markers |-> << [top |-> 160, height |-> 20, dataPause |-> Attr(2)] >>],
    [scrollHeight |-> 360, clientHeight |-> 200,
     markers |-> << [top |-> 160, height |-> 20, dataPause |-> Attr(3)],
                    [top |-> 170, height |-> 20, dataPause |-> Attr(1)] >>],
    [scrollHeight |-> 360, clientHeight |-> 200,
     markers |-> << [top |-> 160, height |-> 20, dataPause |-> NotANumber],
                    [top |-> 220, height |-> 20, dataPause |-> Attr(-2)],
                    [top |-> 250, height |-> 20, dataPause |-> Attr(0)] >>]
  >>

MarkerIds == UNION {DOMAIN Contents[c].markers : c \in DOMAIN Contents}

Markers(c) == Contents[c].markers

\* displayRef.current.scrollHeight - displayRef.current.clientHeight
MaxScroll(c) == Contents[c].scrollHeight - Contents[c].clientHeight

\* Assigning element.scrollTop: the browser keeps it within [0, maxScroll].
SetScrollTop(c, v) == Max2(0, Min2(v, MaxScroll(c)))

\* parseFloat(attr) || 3 : NaN and 0 are falsy
PauseDuration(a) == IF a.num /\ a.val # 0 THEN a.val ELSE FALLBACK_PAUSE

\* markerRect.top <= centerY && markerRect.bottom >= centerY, with the
\* rectangles relative to the display container's top edge
Straddles(c, top, m) ==
    LET centerY    == Contents[c].clientHeight \div 2
        markerTop  == Markers(c)[m].top - top
        markerBot  == markerTop + Markers(c)[m].height
    IN  markerTop <= centerY /\ markerBot >= centerY

\* checkForPauseMarker: the first straddling marker in document order
CheckForPauseMarkerLast(c, top) ==
    LET hits == {m \in DOMAIN Markers(c) : Straddles(c, top, m)}
    IN  IF hits = {} THEN [marker |-> NULL, duration |-> 0]
        ELSE LET m == CHOOSE x \in hits : \A y \in hits : x >= y
             IN  [marker |-> m, duration |-> PauseDuration(Markers(c)[m].dataPause)]
CheckForPauseMarker(c, top) ==
    LET hits == {m \in DOMAIN Markers(c) : Straddles(c, top, m)}
    IN  IF hits = {} THEN [marker |-> NULL, duration |-> 0]
        ELSE LET m == CHOOSE x \in hits : \A y \in hits : x <= y
             IN  [marker |-> m, duration |-> PauseDuration(Markers(c)[m].dataPause)]

(***************************************************************************)
(* The component's state as one record, so that handlers compose.          *)
(***************************************************************************)
Cur == [isPlaying |-> isPlaying, isPaused |-> isPaused, speed |-> speed,
        pauseTimeRemaining |-> pauseTimeRemaining,
        displayRef |-> displayRef,
        scrollPositionRef |-> scrollPositionRef,
        animationFrameRef |-> animationFrameRef,
        lastTimeRef |-> lastTimeRef,
        pauseStartTimeRef |-> pauseStartTimeRef,
        currentPauseMarkerRef |-> currentPauseMarkerRef,
        markerDoc |-> markerDoc, markerStale |-> markerStale,
        scrollTop |-> scrollTop, rafQueue |-> rafQueue, content |-> content]

\* queued callbacks: tracked = its frame id is held by the effect that
\* requested it (animationFrameRef, frameId) and so can be cancelled
AnimateCb      == [fn |-> "animate", tracked |-> TRUE, isActive |-> TRUE]
FirstCountdown == [fn |-> "updatePauseCountdown", tracked |-> TRUE, isActive |-> TRUE]
NextCountdown  == [fn |-> "updatePauseCountdown", tracked |-> FALSE, isActive |-> TRUE]

(***************************************************************************)
(* Effects.  Commit(prev, s) is the React commit after a task changed the  *)
(* state from prev to s: the cleanups of the effects whose dependencies    *)
(* changed, then their bodies.                                             *)
(***************************************************************************)
\* cleanup of the scroll effect (lines 508-514) and the cancelling branch of
\* its body (lines 459-462): the frame held by animationFrameRef is cancelled
ScrollCleanupKeepsFrame(s) == s
ScrollCleanup(s) ==
    [s EXCEPT !.rafQueue = {cb \in @ : cb.fn # "animate"},
              !.animationFrameRef = NULL]

\* body of the scroll effect when playing and not paused (lines 466-467, 506)
ScrollStartKeepBaseline(s) ==
    [s EXCEPT !.rafQueue = @ \cup {AnimateCb},
              !.animationFrameRef = FRAME_ID]
ScrollStart(s) ==
    [s EXCEPT !.lastTimeRef = NULL,
              !.rafQueue = @ \cup {AnimateCb},
              !.animationFrameRef = FRAME_ID]

\* useEffect(..., [isPlaying, isPaused, speed]), lines 457-515
ScrollEffectIgnoresPause(prev, s) ==
    IF prev.isPlaying = s.isPlaying /\ prev.isPaused = s.isPaused
       /\ prev.speed = s.speed
    THEN s
    ELSE LET c == ScrollCleanup(s)
         IN  IF ~c.isPlaying THEN c ELSE ScrollStart(c)
ScrollEffect(prev, s) ==
    IF prev.isPlaying = s.isPlaying /\ prev.isPaused = s.isPaused
       /\ prev.speed = s.speed
    THEN s
    ELSE LET c == ScrollCleanup(s)
         IN  IF ~c.isPlaying \/ c.isPaused THEN c ELSE ScrollStart(c)

\* cleanup of the countdown effect (lines 544-547): isActive = false for the
\* callbacks of this effect instance, and only frameId, the first frame
\* requested, is cancelled
CountdownCleanupNone(s) == s
CountdownCleanup(s) ==
    [s EXCEPT !.rafQueue =
        {cb \in @ : cb.fn # "updatePauseCountdown"} \cup
        {[cb EXCEPT !.isActive = FALSE] :
            cb \in {x \in @ : x.fn = "updatePauseCountdown" /\ ~x.tracked}}]

\* useEffect(..., [isPaused]), lines 518-548
CountdownEffectNoFrame(prev, s) ==
    IF prev.isPaused = s.isPaused THEN s ELSE CountdownCleanup(s)
CountdownEffect(prev, s) ==
    IF prev.isPaused = s.isPaused THEN s
    ELSE LET c == CountdownCleanup(s)
         IN  IF ~c.isPaused \/ c.pauseStartTimeRef = NULL THEN c
             ELSE [c EXCEPT !.rafQueue = @ \cup {FirstCountdown}]

Commit(prev, s) == CountdownEffect(prev, ScrollEffect(prev, s))

(***************************************************************************)
(* Commands                                                                *)
(***************************************************************************)
\* togglePlayPause, lines 357-374: the two state updaters, in order
TogglePlayPauseFromTop(s) ==
    LET p == IF s.isPaused
             THEN [s EXCEPT !.pauseStartTimeRef = NULL,
                            !.currentPauseMarkerRef = NULL,
                            !.isPaused = FALSE]
             ELSE s
    IN  [p EXCEPT !.lastTimeRef = IF ~s.isPlaying THEN NULL ELSE @,
                  !.scrollPositionRef = IF ~s.isPlaying THEN 0 ELSE @,
                  !.isPlaying = ~s.isPlaying]
TogglePlayPauseFlipOnly(s) ==
    [s EXCEPT !.lastTimeRef = IF ~s.isPlaying THEN NULL ELSE @,
              !.isPlaying = ~s.isPlaying]
TogglePlayPause(s) ==
    LET p == IF s.isPaused
             THEN [s EXCEPT !.pauseStartTimeRef = NULL,
                            !.currentPauseMarkerRef = NULL,
                            !.isPaused = FALSE]
             ELSE s
    IN  [p EXCEPT !.lastTimeRef = IF ~s.isPlaying THEN NULL ELSE @,
                  !.isPlaying = ~s.isPlaying]

\* handleReset, lines 376-387
HandleResetKeepsMarker(s) ==
    [s EXCEPT !.isPlaying = FALSE, !.isPaused = FALSE,
              !.scrollPositionRef = 0, !.lastTimeRef = NULL,
              !.pauseStartTimeRef = NULL,
              !.pauseTimeRemaining = 0,
              !.scrollTop = IF s.displayRef # NULL THEN 0 ELSE @]
HandleReset(s) ==
    [s EXCEPT !.isPlaying = FALSE, !.isPaused = FALSE,
              !.scrollPositionRef = 0, !.lastTimeRef = NULL,
              !.pauseStartTimeRef = NULL, !.currentPauseMarkerRef = NULL,
              !.pauseTimeRemaining = 0,
              !.scrollTop = IF s.displayRef # NULL THEN 0 ELSE @]

\* jumpBackward, lines 389-395
JumpBackwardUnclamped(s, c) ==
    LET jumpAmount == lineHeight * JUMP_LINES
        pos == s.scrollPositionRef - jumpAmount
    IN  IF s.displayRef = NULL THEN s
        ELSE [s EXCEPT !.scrollPositionRef = pos,
                       !.scrollTop = SetScrollTop(c, pos)]
JumpBackwardForgetsMarker(s, c) ==
    LET jumpAmount == lineHeight * JUMP_LINES
        pos == Max2(0, s.scrollPositionRef - jumpAmount)
    IN  IF s.displayRef = NULL THEN s
        ELSE [s EXCEPT !.scrollPositionRef = pos,
                       !.scrollTop = SetScrollTop(c, pos),
                       !.currentPauseMarkerRef = NULL]
JumpBackward(s, c) ==
    LET jumpAmount == lineHeight * JUMP_LINES
        pos == Max2(0, s.scrollPositionRef - jumpAmount)
    IN  IF s.displayRef = NULL THEN s
        ELSE [s EXCEPT !.scrollPositionRef = pos,
                       !.scrollTop = SetScrollTop(c, pos)]

\* jumpForward, lines 397-404
JumpForwardEndsPause(s, c) ==
    LET jumpAmount == lineHeight * JUMP_LINES
        pos == Min2(MaxScroll(c), s.scrollPositionRef + jumpAmount)
    IN  IF s.displayRef = NULL THEN s
        ELSE [s EXCEPT !.scrollPositionRef = pos,
                       !.scrollTop = SetScrollTop(c, pos),
                       !.isPaused = FALSE]
JumpForward(s, c) ==
    LET jumpAmount == lineHeight * JUMP_LINES
        pos == Min2(MaxScroll(c), s.scrollPositionRef + jumpAmount)
    IN  IF s.displayRef = NULL THEN s
        ELSE [s EXCEPT !.scrollPositionRef = pos,
                       !.scrollTop = SetScrollTop(c, pos)]

\* handleKeyDown, ArrowUp and ArrowDown, lines 414-419
SpeedUp(s)   == [s EXCEPT !.speed = Min2(@ + SPEED_STEP, MAX_SPEED)]
SpeedDown(s) == [s EXCEPT !.speed = Max2(@ - SPEED_STEP, MIN_SPEED)]

\* handleKeyDown, lines 407-430: isInEditor is whether the event's target is
\* the contentEditable editor (line 409)
HandleKeyDown(s, c, code, isInEditor) ==
    IF code = "Space" /\ ~isInEditor THEN TogglePlayPause(s)
    ELSE IF code = "ArrowUp" /\ ~isInEditor THEN SpeedUp(s)
    ELSE IF code = "ArrowDown" /\ ~isInEditor THEN SpeedDown(s)
    ELSE IF code = "ArrowLeft" /\ ~isInEditor THEN JumpBackward(s, c)
    ELSE IF code = "ArrowRight" /\ ~isInEditor THEN JumpForward(s, c)
    ELSE IF code = "Escape" THEN HandleReset(s)
    ELSE s

\* the value of <input type="range" min="10" max="200"> (lines 582-589) when
\* it is set to v: the element keeps its value within [min, max]
RangeInputValue(v) == Max2(MIN_SPEED, Min2(v, MAX_SPEED))

\* handleSpeedChange, lines 550-552: parseInt of the slider's value, which is
\* a whole number of the slider's range
HandleSpeedChangeRaw(s, v) == [s EXCEPT !.speed = v]
HandleSpeedChange(s, v) == [s EXCEPT !.speed = RangeInputValue(v)]

(***************************************************************************)
(* Frame callbacks                                                         *)
(***************************************************************************)
\* speed * deltaTime, line 493
ScrollDeltaBackward(s, deltaTime) == 0 - s.speed * deltaTime
ScrollDeltaPerFrame(s, deltaTime) == s.speed
ScrollDelta(s, deltaTime) == s.speed * deltaTime

\* animate, lines 469-504, called with the frame's timestamp
AnimateMovesThenPauses(s, c, currentTime) ==
    IF s.displayRef = NULL THEN s
    ELSE IF s.lastTimeRef = NULL
    THEN [s EXCEPT !.lastTimeRef = currentTime,
                   !.rafQueue = @ \cup {AnimateCb},
                   !.animationFrameRef = FRAME_ID]
    ELSE
      LET deltaTime == currentTime - s.lastTimeRef
          pos       == s.scrollPositionRef + ScrollDelta(s, deltaTime)
          s1        == [s EXCEPT !.lastTimeRef = currentTime,
                                 !.scrollPositionRef = pos,
                                 !.scrollTop = SetScrollTop(c, pos)]
          pauseInfo == CheckForPauseMarker(c, s.scrollTop)
      IN  IF pauseInfo.marker # NULL
             /\ (pauseInfo.marker # s.currentPauseMarkerRef \/ s.markerStale)
          THEN [s1 EXCEPT !.currentPauseMarkerRef = pauseInfo.marker,
                          !.markerDoc = c, !.markerStale = FALSE,
                          !.pauseStartTimeRef = currentTime,
                          !.pauseTimeRemaining = pauseInfo.duration,
                          !.isPaused = TRUE]
          ELSE IF pos >= MaxScroll(c)
               THEN [s1 EXCEPT !.isPlaying = FALSE]
               ELSE [s1 EXCEPT !.rafQueue = @ \cup {AnimateCb},
                               !.animationFrameRef = FRAME_ID]
Animate(s, c, currentTime) ==
    IF s.displayRef = NULL THEN s
    ELSE IF s.lastTimeRef = NULL
    THEN [s EXCEPT !.lastTimeRef = currentTime,
                   !.rafQueue = @ \cup {AnimateCb},
                   !.animationFrameRef = FRAME_ID]
    ELSE
      LET deltaTime == currentTime - s.lastTimeRef
          s1        == [s EXCEPT !.lastTimeRef = currentTime]
          pauseInfo == CheckForPauseMarker(c, s.scrollTop)
      IN  IF pauseInfo.marker # NULL
             /\ (pauseInfo.marker # s.currentPauseMarkerRef \/ s.markerStale)
          THEN [s1 EXCEPT !.currentPauseMarkerRef = pauseInfo.marker,
                          !.markerDoc = c, !.markerStale = FALSE,
                          !.pauseStartTimeRef = currentTime,
                          !.pauseTimeRemaining = pauseInfo.duration,
                          !.isPaused = TRUE]
          ELSE
            LET pos == s.scrollPositionRef + ScrollDelta(s, deltaTime)
                s2  == [s1 EXCEPT !.scrollPositionRef = pos,
                                  !.scrollTop = SetScrollTop(c, pos)]
            IN  IF pos >= MaxScroll(c)
                THEN [s2 EXCEPT !.isPlaying = FALSE]
                ELSE [s2 EXCEPT !.rafQueue = @ \cup {AnimateCb},
                                !.animationFrameRef = FRAME_ID]

\* updatePauseCountdown, lines 523-540
UpdatePauseCountdown(s, c, currentTime) ==
    LET pauseElapsed  == currentTime - s.pauseStartTimeRef
        pauseDuration == IF s.currentPauseMarkerRef = NULL THEN FALLBACK_PAUSE
                         ELSE PauseDuration(
                                Markers(s.markerDoc)[s.currentPauseMarkerRef]
                                    .dataPause)
        remaining     == Max2(0, pauseDuration - pauseElapsed)
        s1            == [s EXCEPT !.pauseTimeRemaining = remaining]
    IN  IF pauseElapsed >= pauseDuration
        THEN [s1 EXCEPT !.isPaused = FALSE,
                        !.pauseStartTimeRef = NULL,
                        !.currentPauseMarkerRef = NULL]
        ELSE [s1 EXCEPT !.rafQueue = @ \cup {NextCountdown}]

\* One animation frame: the browser takes the queued callbacks and calls each
\* with the frame's timestamp; callbacks requested meanwhile wait for the
\* next frame.  A callback whose isActive is false returns at once (line 524).
RunFrame(s, c, currentTime) ==
    LET q  == s.rafQueue
        s0 == [s EXCEPT !.rafQueue = {}]
        sA == IF AnimateCb \in q THEN Animate(s0, c, currentTime) ELSE s0
        sC == IF \E cb \in q : cb.fn = "updatePauseCountdown" /\ cb.isActive
              THEN UpdatePauseCountdown(sA, c, currentTime) ELSE sA
    IN  Commit(s, sC)

\* The clock origin is arbitrary: timestamps are shifted so that the oldest
\* one the program still holds (or the clock, when it holds none) is 1.
RebaseShift(s, t) ==
    LET held == {s.lastTimeRef, s.pauseStartTimeRef} \ {NULL}
        base == IF held = {} THEN t
                ELSE CHOOSE x \in held : \A y \in held : x <= y
    IN  base - 1
Rebase(s, t) ==
    LET d == RebaseShift(s, t)
    IN  [s EXCEPT !.lastTimeRef = IF @ = NULL THEN NULL ELSE @ - d,
                  !.pauseStartTimeRef = IF @ = NULL THEN NULL ELSE @ - d]

\* the program's variables take the values of record s, the clock is t
Becomes(s, t) ==
    /\ isPlaying' = s.isPlaying
    /\ isPaused' = s.isPaused
    /\ speed' = s.speed
    /\ pauseTimeRemaining' = s.pauseTimeRemaining
    /\ displayRef' = s.displayRef
    /\ scrollPositionRef' = s.scrollPositionRef
    /\ animationFrameRef' = s.animationFrameRef
    /\ lastTimeRef' = Rebase(s, t).lastTimeRef
    /\ pauseStartTimeRef' = Rebase(s, t).pauseStartTimeRef
    /\ currentPauseMarkerRef' = s.currentPauseMarkerRef
    /\ markerDoc' = IF s.currentPauseMarkerRef = NULL THEN NULL ELSE s.markerDoc
    /\ markerStale' = (s.currentPauseMarkerRef # NULL /\ s.markerStale)
    /\ scrollTop' = s.scrollTop
    /\ rafQueue' = s.rafQueue
    /\ now' = t - RebaseShift(s, t)
    /\ content' = s.content
    /\ UNCHANGED appVars

(***************************************************************************)
(* Initial state: the component as mounted (lines 344-355), showing one of *)
(* the contents.                                                           *)
(***************************************************************************)
NoSessions == [m \in MarkerIds |-> 0]

\* contents whose markers all declare a positive duration, as the editor's
\* insertPause writes them (line 52), and the others (loaded or pasted)
WellFormedContents ==
    {c \in DOMAIN Contents :
        \A m \in DOMAIN Markers(c) :
            Markers(c)[m].dataPause.num /\ Markers(c)[m].dataPause.val > 0}
MalformedContents == DOMAIN Contents \ WellFormedContents

Mounted ==
    /\ isPlaying = FALSE
    /\ isPaused = FALSE
    /\ speed = DEFAULT_SPEED
    /\ pauseTimeRemaining = 0
    /\ displayRef = ELEMENT
    /\ scrollPositionRef = 0
    /\ animationFrameRef = NULL
    /\ lastTimeRef = NULL
    /\ pauseStartTimeRef = NULL
    /\ currentPauseMarkerRef = NULL
    /\ markerDoc = NULL
    /\ markerStale = FALSE
    /\ scrollTop = 0
    /\ rafQueue = {}
    /\ now = 1
    /\ lastOp = "init"
    /\ lastInput = 0
    /\ cmdFree = FALSE
    /\ opened = NoSessions
    /\ playTop = 0
    /\ fresh = FALSE
    /\ inRun = FALSE
    /\ basePos = 0
    /\ elapsed = 0
    /\ endedElapsed = 0
    /\ endedDuration = 0
    /\ firstTick = FALSE
    /\ lastDt = 0
    /\ openedDuration = 0
    /\ rerendered = NULL
    /\ appContent = DEFAULT_CONTENT
    /\ storage = Item(DEFAULT_CONTENT)

Init == Mounted /\ content \in WellFormedContents

InitMalformed == Mounted /\ content \in MalformedContents

Scrolling(s) == s.isPlaying /\ ~s.isPaused

\* history after a user command other than play
AfterCommand(op, input) ==
    /\ lastOp' = op
    /\ lastInput' = input
    /\ cmdFree' = FALSE
    /\ opened' = NoSessions
    /\ playTop' = 0
    /\ inRun' = FALSE
    /\ basePos' = 0
    /\ elapsed' = 0
    /\ endedElapsed' = 0
    /\ endedDuration' = 0
    /\ firstTick' = FALSE
    /\ lastDt' = 0
    /\ openedDuration' = IF isPaused' THEN openedDuration ELSE 0
    /\ rerendered' = IF op # "contentChange" \/ input # content THEN NULL
                     ELSE IF isPaused THEN currentPauseMarkerRef
                     ELSE rerendered

(***************************************************************************)
(* Actions: the user's commands                                            *)
(***************************************************************************)
\* the play/pause button (line 573) or the Space key (line 413)
DoTogglePlayPause ==
    LET s == Commit(Cur, TogglePlayPause(Cur))
    IN  /\ displayRef # NULL
        /\ isPlaying \/ scrollPositionRef <= MaxPos
        /\ Becomes(s, now)
        /\ lastOp' = "togglePlayPause"
        /\ lastInput' = 0
        /\ cmdFree' = ~isPlaying
        /\ opened' = NoSessions
        /\ playTop' = IF ~isPlaying THEN scrollTop ELSE 0
        /\ fresh' = (Scrolling(s) /\ ~Scrolling(Cur))
        /\ inRun' = FALSE
        /\ basePos' = 0
        /\ elapsed' = 0
        /\ endedElapsed' = 0
        /\ endedDuration' = 0
        /\ firstTick' = FALSE
        /\ lastDt' = 0
        /\ openedDuration' = 0
        /\ rerendered' = NULL

\* the reset button (line 593) or the Escape key (line 428)
DoReset ==
    /\ displayRef # NULL
    /\ Becomes(Commit(Cur, HandleReset(Cur)), now)
    /\ AfterCommand("handleReset", 0)
    /\ fresh' = FALSE

\* the ArrowLeft key (line 422)
DoJumpBackward ==
    /\ displayRef # NULL
    /\ Becomes(Commit(Cur, JumpBackward(Cur, content)), now)
    /\ AfterCommand("jumpBackward", 0)
    /\ UNCHANGED fresh

\* the ArrowRight key (line 425)
DoJumpForward ==
    /\ displayRef # NULL
    /\ Becomes(Commit(Cur, JumpForward(Cur, content)), now)
    /\ AfterCommand("jumpForward", 0)
    /\ UNCHANGED fresh

\* the ArrowUp key (line 416)
DoSpeedUp ==
    /\ displayRef # NULL
    /\ Becomes(Commit(Cur, SpeedUp(Cur)), now)
    /\ AfterCommand("speedUp", 0)
    /\ UNCHANGED fresh

\* the ArrowDown key (line 419)
DoSpeedDown ==
    /\ displayRef # NULL
    /\ Becomes(Commit(Cur, SpeedDown(Cur)), now)
    /\ AfterCommand("speedDown", 0)
    /\ UNCHANGED fresh

\* keys pressed while typing in the editor
KeyCodes == {"Space", "ArrowUp", "ArrowDown", "ArrowLeft", "ArrowRight",
             "Escape"}

\* a keydown whose target is the contentEditable editor (lines 325-333); the
\* history records it when it changed anything
DoKeyDownInEditor(code) ==
    LET s == Commit(Cur, HandleKeyDown(Cur, content, code, TRUE))
    IN  /\ displayRef # NULL
        /\ Becomes(s, now)
        /\ IF s # Cur
           THEN AfterCommand("keyDownInEditor", 0) /\ fresh' = FALSE
           ELSE UNCHANGED histVars

\* values the speed slider is set to
SliderInputs == {-5, 60, 9999}

\* the speed slider (line 587)
DoSpeedChange(v) ==
    /\ displayRef # NULL
    /\ Becomes(Commit(Cur, HandleSpeedChange(Cur, v)), now)
    /\ AfterCommand("handleSpeedChange", v)
    /\ UNCHANGED fresh

(***************************************************************************)
(* Actions: animation frames                                               *)
(***************************************************************************)
LiveCountdown(q) == \E cb \in q : cb.fn = "updatePauseCountdown" /\ cb.isActive

Bump(f, m) == [f EXCEPT ![m] = Min2(@ + 1, SessionCap)]

\* a frame in which animate runs
AnimateFrame(dt) ==
    LET t == now + dt
        s == RunFrame(Cur, content, t)
    IN  /\ AnimateCb \in rafQueue
        /\ Becomes(s, t)
        /\ lastOp' = "animate"
        /\ lastInput' = 0
        /\ fresh' = FALSE
        /\ firstTick' = fresh
        /\ lastDt' = dt
        /\ openedDuration' = IF s.isPaused /\ ~isPaused THEN s.pauseTimeRemaining
                             ELSE IF s.isPaused THEN openedDuration ELSE 0
        /\ rerendered' = IF s.isPaused /\ ~isPaused THEN NULL ELSE rerendered
        /\ opened' = IF cmdFree /\ s.isPaused /\ ~isPaused
                     THEN Bump(opened, s.currentPauseMarkerRef) ELSE opened
        /\ inRun' = (displayRef # NULL /\ (inRun \/ lastTimeRef = NULL))
        /\ basePos' = IF lastTimeRef = NULL THEN scrollPositionRef ELSE basePos
        /\ elapsed' = IF lastTimeRef = NULL THEN 0
                      ELSE IF inRun THEN elapsed + dt ELSE elapsed
        /\ endedElapsed' = 0
        /\ endedDuration' = 0
        /\ UNCHANGED <<cmdFree, playTop>>

\* a frame in which updatePauseCountdown runs
CountdownFrame(dt) ==
    LET t == now + dt
        s == RunFrame(Cur, content, t)
    IN  /\ displayRef # NULL
        /\ AnimateCb \notin rafQueue
        /\ LiveCountdown(rafQueue)
        /\ Becomes(s, t)
        /\ lastOp' = "updatePauseCountdown"
        /\ lastInput' = 0
        /\ fresh' = IF ~s.isPaused THEN Scrolling(s) ELSE fresh
        /\ firstTick' = FALSE
        /\ lastDt' = dt
        /\ openedDuration' = IF s.isPaused THEN openedDuration ELSE 0
        /\ rerendered' = rerendered
        /\ endedElapsed' = IF ~s.isPaused THEN t - pauseStartTimeRef ELSE 0
        /\ endedDuration' = IF ~s.isPaused /\ currentPauseMarkerRef # NULL
                            THEN Markers(markerDoc)[currentPauseMarkerRef].dataPause.val
                            ELSE 0
        /\ UNCHANGED <<cmdFree, opened, playTop, inRun, basePos, elapsed>>

\* a frame in which only callbacks of cleaned-up effects run
StaleFrame(dt) ==
    LET t == now + dt
        s == RunFrame(Cur, content, t)
    IN  /\ rafQueue # {}
        /\ AnimateCb \notin rafQueue
        /\ ~LiveCountdown(rafQueue)
        /\ Becomes(s, t)
        /\ lastOp' = "staleFrame"
        /\ lastInput' = 0
        /\ firstTick' = FALSE
        /\ lastDt' = dt
        /\ openedDuration' = IF s.isPaused THEN openedDuration ELSE 0
        /\ rerendered' = rerendered
        /\ UNCHANGED <<cmdFree, opened, playTop, fresh, inRun, basePos, elapsed,
                       endedElapsed, endedDuration>>

(***************************************************************************)
(* Actions: removal of the display.  React detaches the refs when it       *)
(* commits the removal and runs the effect cleanups afterwards, so a frame *)
(* can fall in between.  Only the removal with a scroll tick pending is    *)
(* followed; no input reaches the component once its elements are gone.    *)
(***************************************************************************)
\* the commit that removes the display: ref={displayRef}, ref={contentRef}
UnmountDetach ==
    /\ displayRef # NULL
    /\ AnimateCb \in rafQueue
    /\ ~LiveCountdown(rafQueue)
    /\ Becomes([Cur EXCEPT !.displayRef = NULL], now)
    /\ AfterCommand("unmountDetach", 0)
    /\ fresh' = FALSE

\* the effect cleanups of the removed display (lines 508-514, 544-547)
UnmountCleanup ==
    /\ displayRef = NULL
    /\ Becomes(CountdownCleanup(ScrollCleanup(Cur)), now)
    /\ AfterCommand("unmountCleanup", 0)
    /\ fresh' = FALSE

Next ==
    \/ UnmountDetach
    \/ UnmountCleanup
    \/ DoTogglePlayPause
    \/ DoReset
    \/ DoJumpBackward
    \/ DoJumpForward
    \/ DoSpeedUp
    \/ DoSpeedDown
    \/ \E v \in SliderInputs : DoSpeedChange(v)
    \/ \E code \in KeyCodes : DoKeyDownInEditor(code)
    \/ \E dt \in 1..MaxDt : AnimateFrame(dt)
    \/ \E dt \in 1..MaxDt : CountdownFrame(dt)
    \/ \E dt \in 1..MaxDt : StaleFrame(dt)

Spec == Init /\ [][Next]_vars

(***************************************************************************)
(* Re-render: the App passes a changed content to the display              *)
(***************************************************************************)
\* the contents an edit can turn the script into
RerenderContents == WellFormedContents

\* the render of TeleprompterDisplay with a changed content prop (line 562):
\* the changed __html replaces the children of the content element, so an
\* element held in currentPauseMarkerRef is no longer in the document, but
\* the ref still holds it with its data-pause attribute; no effect has
\* content among its dependencies (lines 434, 515, 548), so no cleanup runs
\* and no state or other ref changes
Rerender(s, c2) ==
    [s EXCEPT !.content = c2,
              !.markerStale = (s.currentPauseMarkerRef # NULL),
              !.scrollTop = SetScrollTop(c2, s.scrollTop)]

\* handleContentChange of the App (part_000 lines 41-43, 61) as the display
\* sees it: every edit changes the content string, the layout of its pause
\* markers may stay the same
DoContentChange(c2) ==
    /\ displayRef # NULL
    /\ Becomes(Rerender(Cur, c2), now)
    /\ AfterCommand("contentChange", c2)
    /\ fresh' = fresh

InitRerender == Mounted /\ content \in RerenderContents

NextRerender ==
    \/ DoTogglePlayPause
    \/ DoReset
    \/ \E c2 \in RerenderContents : DoContentChange(c2)
    \/ \E dt \in 1..MaxDt : AnimateFrame(dt)
    \/ \E dt \in 1..MaxDt : CountdownFrame(dt)
    \/ \E dt \in 1..MaxDt : StaleFrame(dt)

SpecRerender == InitRerender /\ [][NextRerender]_vars

(***************************************************************************)
(* App: content changes and re-initialization, the display left alone      *)
(***************************************************************************)
\* the items localStorage can hold when the app starts
SavedItems == {NoItem} \cup {Item(t) : t \in {x \in Scripts : Len(x) <= Quota}}

\* App mounted: the script comes from the saved item, then the save effect
\* runs for it
AppInit ==
    /\ Mounted
    /\ content = 1
    /\ \E saved \in SavedItems :
          /\ appContent = LoadContent(saved)
          /\ storage = SaveEffect(saved, LoadContent(saved))

\* handleContentChange (part_000 lines 41-43) called by the editor: typing
\* (EditorPanel handleInput, line 40) or New (handleNewScript, line 98);
\* the save effect runs when the script changed
HandleContentChange(newContent) ==
    /\ appContent' = newContent
    /\ storage' = IF newContent # appContent
                  THEN SaveEffect(storage, newContent) ELSE storage
    /\ lastOp' = "handleContentChange"
    /\ UNCHANGED <<progVars, lastInput, cmdFree, opened, playTop, fresh, inRun,
                   basePos, elapsed, endedElapsed, endedDuration, firstTick,
                   lastDt, openedDuration, rerendered>>

\* the page is loaded again: App is initialized from the saved item
AppReload ==
    /\ appContent' = LoadContent(storage)
    /\ storage' = SaveEffect(storage, LoadContent(storage))
    /\ lastOp' = "reload"
    /\ UNCHANGED <<progVars, lastInput, cmdFree, opened, playTop, fresh, inRun,
                   basePos, elapsed, endedElapsed, endedDuration, firstTick,
                   lastDt, openedDuration, rerendered>>

AppNext ==
    \/ \E newContent \in Scripts : HandleContentChange(newContent)
    \/ AppReload

AppSpec == AppInit /\ [][AppNext]_vars

\* the same program showing a content with malformed markers
SpecMalformed == InitMalformed /\ [][Next]_vars

TypeOK ==
    /\ isPlaying \in BOOLEAN /\ isPaused \in BOOLEAN
    /\ speed \in Int /\ scrollPositionRef \in Int
    /\ lastTimeRef \in Nat /\ pauseStartTimeRef \in Nat
    /\ currentPauseMarkerRef \in MarkerIds \cup {NULL}
    /\ displayRef \in {NULL, ELEMENT}
    /\ markerDoc \in DOMAIN Contents \cup {NULL}
    /\ markerStale \in BOOLEAN
    /\ rerendered \in {NULL} \cup DOMAIN Markers(content)
    /\ (currentPauseMarkerRef # NULL) = (markerDoc # NULL)

(***************************************************************************)
(* A play session without user commands: commands are given only before    *)
(* play is pressed, then only frames happen.  The browser calls every      *)
(* requested frame callback (the page stays visible): weak fairness of the *)
(* frame actions.                                                          *)
(***************************************************************************)
LiveNext ==
    \/ /\ ~cmdFree
       /\ \/ DoTogglePlayPause
          \/ DoJumpBackward
          \/ DoJumpForward
          \/ DoSpeedUp
          \/ DoSpeedDown
          \/ \E v \in SliderInputs : DoSpeedChange(v)
    \/ \E dt \in 1..MaxDt : AnimateFrame(dt)
    \/ \E dt \in 1..MaxDt : CountdownFrame(dt)

LiveSpec ==
    /\ Init
    /\ [][LiveNext]_vars
    /\ WF_vars(\E dt \in 1..MaxDt : AnimateFrame(dt))
    /\ WF_vars(\E dt \in 1..MaxDt : CountdownFrame(dt))

AtEnd == ~isPlaying /\ scrollPositionRef >= MaxScroll(content)

(***************************************************************************)
(* The play/pause control and the frames alone: no jump, speed change,     *)
(* reset or edit, so only scroll ticks move the position                   *)
(***************************************************************************)
NextReplay ==
    \/ DoTogglePlayPause
    \/ \E dt \in 1..MaxDt : AnimateFrame(dt)
    \/ \E dt \in 1..MaxDt : CountdownFrame(dt)
    \/ \E dt \in 1..MaxDt : StaleFrame(dt)

SpecReplay == Init /\ [][NextReplay]_vars

(***************************************************************************)
(* Claims                                                                  *)
(***************************************************************************)
\* C1: in a play session without user commands each marker gets at most one
\* pause session, and a session ended by its countdown lasted at least the
\* marker's declared duration.
C1_OncePerCrossing ==
    /\ cmdFree => \A m \in MarkerIds : opened[m] <= 1
    /\ (lastOp = "updatePauseCountdown" /\ ~isPaused)
          => endedElapsed >= endedDuration

\* C2: togglePlayPause in the Paused state resumes scrolling (isPlaying
\* stays true, isPaused becomes false); in every other state it only flips
\* isPlaying.
C2_ToggleResumes ==
    [][lastOp' = "togglePlayPause" =>
         IF isPlaying /\ isPaused
         THEN isPlaying' /\ ~isPaused'
         ELSE isPlaying' = ~isPlaying /\ isPaused' = isPaused]_vars

\* C3: once play is pressed and no command follows, the session eventually
\* ends in Idle at the end of the document.
C3_EventuallyEnds == cmdFree ~> AtEnd

\* C4: after reset the position and the viewport offset are 0, the state is
\* Idle, no pause session and no honored marker remain, and no frame
\* callback is left scheduled (a second reset then changes nothing).
C4_ResetClearsAll ==
    lastOp = "handleReset" =>
        /\ scrollPositionRef = 0 /\ scrollTop = 0
        /\ ~isPlaying /\ ~isPaused
        /\ pauseStartTimeRef = NULL /\ currentPauseMarkerRef = NULL
        /\ rafQueue = {}

\* C5: no position beyond the maximum scroll extent is ever stored, and the
\* tick that ends the session at the end of the document leaves the position
\* at the maximum scroll extent exactly.
C5_NoOvershoot ==
    /\ scrollPositionRef <= MaxScroll(content)
    /\ (lastOp = "animate" /\ ~isPlaying)
          => scrollPositionRef = MaxScroll(content)

\* the marker is below (not yet at) / above (already past) the reading line
\* when the viewport offset is top
BelowLine(c, top, m) ==
    Markers(c)[m].top - top > Contents[c].clientHeight \div 2
AboveLine(c, top, m) ==
    Markers(c)[m].top - top + Markers(c)[m].height < Contents[c].clientHeight \div 2

\* C6: in a play session without user commands, a marker that was below the
\* reading line at play and is above it now (the scroll carried it across)
\* has had a pause session.
C6_NoMarkerSkipped ==
    cmdFree =>
        \A m \in DOMAIN Markers(content) :
            (BelowLine(content, playTop, m) /\ AboveLine(content, scrollTop, m))
                => opened[m] >= 1

C8_JumpClamped ==
    [][/\ lastOp' = "jumpForward" =>
            scrollPositionRef' =
                Max2(0, Min2(scrollPositionRef + 120, MaxScroll(content)))
       /\ lastOp' = "jumpBackward" =>
            scrollPositionRef' =
                Max2(0, Min2(scrollPositionRef - 120, MaxScroll(content)))]_vars

\* C9: the first animate tick after a play command or a resume leaves the
\* position unchanged, whatever the time of that tick.
C9_FirstTickNoJump ==
    [][(lastOp' = "animate" /\ fresh) =>
          scrollPositionRef' = scrollPositionRef]_vars

\* a first tick after the automatic resume that follows a countdown
C9_Witness ==
    /\ firstTick /\ isPlaying /\ ~isPaused
    /\ cmdFree /\ \E m \in MarkerIds : opened[m] >= 1
    /\ scrollPositionRef > 0
    /\ lastTimeRef # NULL

\* C10: with no markers, a fixed speed and no commands, the position after
\* ticks covering the time elapsed since the baseline tick is the position at
\* the baseline tick plus speed * elapsed, however the time is split in ticks.
C10_RateFidelity ==
    (inRun /\ Markers(content) = <<>>) =>
        scrollPositionRef = basePos + speed * elapsed

C10_Witness ==
    /\ inRun /\ Markers(content) = <<>>
    /\ elapsed = 3
    /\ basePos > 0
    /\ scrollPositionRef = basePos + speed * 3

\* C11: in every reachable state isPaused implies isPlaying, so the flag
\* combinations are Idle (neither), Scrolling (playing, not paused) and
\* Paused (both).
C11_PausedImpliesPlaying == isPaused => isPlaying

\* a command given during a pause leaves the teleprompter Paused
C11_Witness ==
    /\ isPaused /\ isPlaying
    /\ lastOp \in {"jumpForward", "jumpBackward", "speedUp", "speedDown",
                   "handleSpeedChange"}

\* C12: whenever isPaused holds, a pause session exists (the active marker
\* and the start timestamp are set) and a countdown tick is scheduled.
C12_PausedHasCountdown ==
    isPaused => /\ currentPauseMarkerRef # NULL
                /\ pauseStartTimeRef # NULL
                /\ LiveCountdown(rafQueue)

\* a pause whose countdown has ticked and is scheduled again
C12_Witness ==
    /\ isPaused /\ lastOp = "updatePauseCountdown"
    /\ NextCountdown \in rafQueue
    /\ currentPauseMarkerRef # NULL /\ pauseStartTimeRef # NULL

\* C13: when several markers straddle the reading line on a tick, the
\* session opened on that tick is for the earliest in document order; a
\* later marker gets a session only when no session is active any more and
\* it straddles the line at that time.
C13_FirstMarkerWins ==
    [][(currentPauseMarkerRef' # NULL
        /\ currentPauseMarkerRef' # currentPauseMarkerRef)
       => /\ ~isPaused
          /\ currentPauseMarkerRef = NULL
          /\ Straddles(content, scrollTop, currentPauseMarkerRef')
          /\ \A a \in DOMAIN Markers(content) :
                a < currentPauseMarkerRef' => ~Straddles(content, scrollTop, a)
      ]_vars

\* a session was opened for the first marker while the second one straddles
\* the line too
C13_Witness ==
    /\ isPaused /\ lastOp = "animate"
    /\ currentPauseMarkerRef = 1
    /\ 2 \in DOMAIN Markers(content)
    /\ Straddles(content, scrollTop, 1)
    /\ Straddles(content, scrollTop, 2)

\* C14: while isPaused, no step (scroll tick, countdown tick or command)
\* opens a second session: the active marker stays the same and the start
\* timestamp stays where it was, so the session's age grows exactly by
\* the time that passes.
C14_SessionStable ==
    [][(isPaused /\ isPaused')
       => /\ currentPauseMarkerRef' = currentPauseMarkerRef
          /\ now' - pauseStartTimeRef' = (now - pauseStartTimeRef) + lastDt'
      ]_vars

\* a countdown tick ran during the session and the session is still open
C14_Witness ==
    /\ isPaused /\ lastOp = "updatePauseCountdown"
    /\ currentPauseMarkerRef # NULL
    /\ now - pauseStartTimeRef >= 1

\* C15: a marker whose declared duration is unparsable, zero or negative
\* gets the fallback of 3 seconds: 3 is the value announced when its
\* session opens, and the countdown ends the session no earlier than 3
\* seconds after it opened.
C15_FallbackHonored ==
    [][/\ (~isPaused /\ isPaused'
           /\ LET a == Markers(content)[currentPauseMarkerRef'].dataPause
              IN  ~a.num \/ a.val <= 0)
          => pauseTimeRemaining' = FALLBACK_PAUSE
       /\ (isPaused /\ ~isPaused' /\ lastOp' = "updatePauseCountdown"
           /\ LET a == Markers(content)[currentPauseMarkerRef].dataPause
              IN  ~a.num \/ a.val <= 0)
          => (now - pauseStartTimeRef) + lastDt' >= FALLBACK_PAUSE
      ]_vars

\* C16: a scroll tick that fires while the viewport is unavailable changes
\* no state and is retried: a scroll tick is scheduled for the next frame.
C16_TickRetried ==
    [][(lastOp' = "animate" /\ displayRef = NULL)
       => /\ UNCHANGED <<isPlaying, isPaused, speed, pauseTimeRemaining,
                         scrollPositionRef, scrollTop, currentPauseMarkerRef,
                         displayRef>>
          /\ AnimateCb \in rafQueue'
      ]_vars

\* C17: a speed change during Scrolling changes neither the position nor
\* the timestamp baseline of the scroll ticks: the baseline recorded by the
\* previous tick is still there, as far back as before, so that the next
\* tick charges all the time since the previous tick.
C17_SpeedKeepsBaseline ==
    [][(lastOp' \in {"speedUp", "speedDown", "handleSpeedChange"}
        /\ isPlaying /\ ~isPaused /\ lastTimeRef # NULL)
       => /\ scrollPositionRef' = scrollPositionRef
          /\ lastTimeRef' # NULL
          /\ now' - lastTimeRef' = now - lastTimeRef
      ]_vars

\* C18: in no reachable state are a scroll tick and a countdown tick both
\* live (pending and able to change state).
C18_OneTickStream == ~(AnimateCb \in rafQueue /\ LiveCountdown(rafQueue))

\* play is pressed while countdown callbacks of an ended session are still
\* queued: the scroll tick is live, they are not
C18_Witness ==
    /\ AnimateCb \in rafQueue
    /\ \E cb \in rafQueue : cb.fn = "updatePauseCountdown" /\ ~cb.isActive

\* C19: after every scroll tick, every jump and every reset the viewport's
\* scroll offset equals the stored position.
C19_ViewportFollowsPosition ==
    lastOp \in {"animate", "jumpBackward", "jumpForward", "handleReset"}
        => scrollTop = scrollPositionRef

\* C20: a keydown whose target is the contentEditable editor changes no
\* teleprompter state, whatever the key: isPlaying, isPaused, speed and the
\* position are unchanged.
C20_EditorKeysIgnored ==
    [][lastOp' = "keyDownInEditor"
       => UNCHANGED <<isPlaying, isPaused, speed, scrollPositionRef>>]_vars

\* C21: the script is saved on every content change: after any sequence of
\* content changes and re-initializations the stored item is the current
\* script (the empty script too), so that re-initializing restores it.
C21_StoredIsCurrent == storage = Item(appContent)

\* C22: within one scroll tick the marker check is made against the position
\* the tick is about to commit (previous position plus this tick's delta):
\* the tick opens a session exactly when a marker straddles the reading
\* line at that position.
C22_CheckAtProposedPosition ==
    [][(lastOp' = "animate" /\ displayRef # NULL /\ lastTimeRef # NULL
        /\ isPlaying /\ ~isPaused)
       => LET deltaTime == (now + lastDt') - lastTimeRef
              proposed  == scrollPositionRef + speed * deltaTime
              top       == SetScrollTop(content, proposed)
          IN  isPaused' <=> \E m \in DOMAIN Markers(content) :
                                Straddles(content, top, m)
      ]_vars

\* C23: a frame changes the position only if isPlaying and not isPaused
\* hold when it runs: in Idle and in Paused no frame callback moves the
\* position, whenever it was requested.
C23_TicksMoveOnlyWhenScrolling ==
    [][(lastOp' \in {"animate", "updatePauseCountdown", "staleFrame"}
        /\ scrollPositionRef' # scrollPositionRef)
       => (isPlaying /\ ~isPaused)
      ]_vars

\* a callback requested during a pause runs after the toggle that left for
\* Idle, and the position stays where it was
C23_Witness ==
    /\ lastOp = "staleFrame" /\ ~isPlaying /\ ~isPaused
    /\ scrollPositionRef > 0

\* C24: the tick that opens a pause session does not apply its clock
\* delta (the position after it is the position before it), and no frame
\* changes the position while the session lasts.
C24_PauseFreezesPosition ==
    [][/\ (~isPaused /\ isPaused') => scrollPositionRef' = scrollPositionRef
       /\ (isPaused
           /\ lastOp' \in {"animate", "updatePauseCountdown", "staleFrame"})
          => scrollPositionRef' = scrollPositionRef
      ]_vars

\* the opening tick came a frame interval after the previous tick and left
\* the position alone; a countdown tick followed
C24_Witness ==
    /\ isPaused /\ lastOp = "updatePauseCountdown"
    /\ scrollPositionRef > 0 /\ scrollTop = scrollPositionRef
    /\ pauseTimeRemaining > 0

\* C25: a pause session ends only by its countdown, by togglePlayPause or
\* by reset (no speed change, jump or scroll tick ends it), and the
\* countdown ends it no earlier than the session's duration (the declared
\* one, or the fallback for an unusable declaration) after its start.
C25_SessionEndsOnlyByThree ==
    [][(isPaused /\ ~isPaused')
       => \/ lastOp' \in {"togglePlayPause", "handleReset", "keyDownInEditor"}
          \/ /\ lastOp' = "updatePauseCountdown"
             /\ LET a == Markers(content)[currentPauseMarkerRef].dataPause
                    durationSec == IF a.num /\ a.val > 0 THEN a.val
                                   ELSE FALLBACK_PAUSE
                IN  (now - pauseStartTimeRef) + lastDt' >= durationSec
      ]_vars

\* C26: during a pause session the remaining time shown is never negative
\* and never greater than the session's duration, each countdown tick sets
\* it to max(0, duration - time since the session's start), and it does not
\* increase from tick to tick.
C26_RemainingTime ==
    [][(isPaused' /\ lastOp' \in {"animate", "updatePauseCountdown"})
       => LET a == Markers(content)[currentPauseMarkerRef'].dataPause
              durationSec == IF a.num /\ a.val > 0 THEN a.val
                             ELSE FALLBACK_PAUSE
              age == now' - pauseStartTimeRef'
          IN  /\ pauseTimeRemaining' >= 0
              /\ pauseTimeRemaining' <= durationSec
              /\ pauseTimeRemaining' = Max2(0, durationSec - age)
              /\ isPaused => pauseTimeRemaining' <= pauseTimeRemaining
      ]_vars

\* C27: a jump acts at once in Idle, Scrolling and Paused (the viewport
\* shows the new position in the same step) and changes nothing else:
\* isPlaying, isPaused, speed, the active marker and the session's start
\* are as before.
C27_JumpOnlyMoves ==
    [][lastOp' \in {"jumpBackward", "jumpForward"}
       => /\ UNCHANGED <<isPlaying, isPaused, speed, pauseTimeRemaining,
                         currentPauseMarkerRef>>
          /\ (pauseStartTimeRef' = NULL) = (pauseStartTimeRef = NULL)
          /\ now' - pauseStartTimeRef' = now - pauseStartTimeRef
          /\ scrollTop' = SetScrollTop(content, scrollPositionRef')
      ]_vars

\* a jump back during a pause moved the position
C27_Witness ==
    /\ lastOp = "jumpBackward" /\ isPaused /\ isPlaying
    /\ currentPauseMarkerRef # NULL
    /\ ~Straddles(content, scrollTop, currentPauseMarkerRef)

\* C28: a re-render of the content during a pause session leaves the
\* session as it is (still paused, same held marker, same start, same
\* duration, countdown still scheduled); the countdown then ends the
\* session at the first tick at which the duration the session was opened
\* with has elapsed, and at no earlier tick; and the marker of that session,
\* still in place after the re-render, does not open another session
\* before a command.
C28_RerenderKeepsSession ==
    [][/\ (isPaused /\ lastOp' = "contentChange")
          => /\ isPaused'
             /\ currentPauseMarkerRef' = currentPauseMarkerRef
             /\ now' - pauseStartTimeRef' = now - pauseStartTimeRef
             /\ pauseTimeRemaining' = pauseTimeRemaining
             /\ openedDuration' = openedDuration
             /\ LiveCountdown(rafQueue')
       /\ (isPaused /\ lastOp' = "updatePauseCountdown")
          => (~isPaused'
              <=> (now - pauseStartTimeRef) + lastDt' >= openedDuration)
       /\ (~isPaused /\ isPaused' /\ rerendered # NULL)
          => currentPauseMarkerRef' # rerendered
      ]_vars

\* C29: no tick (scroll tick, countdown tick, or a frame in which only
\* cancelled callbacks run) lowers the scroll position; the timestamps of
\* successive frames increase.
C29_TicksNeverScrollBack ==
    [][lastOp' \in {"animate", "updatePauseCountdown", "staleFrame"}
       => scrollPositionRef' >= scrollPositionRef]_vars

\* scroll ticks of one play session have moved the position forward
C29_Witness ==
    /\ lastOp = "animate"
    /\ inRun
    /\ elapsed >= 2
    /\ scrollPositionRef > basePos

\* C30: a marker is remembered as honored only during a pause session: in
\* Idle and in Scrolling currentPauseMarkerRef is empty.
C30_MarkerHeldOnlyWhilePaused ==
    currentPauseMarkerRef # NULL => isPaused

\* a session of 2 seconds has just been ended by its countdown, scrolling
\* goes on and no marker is remembered
C30_Witness ==
    /\ lastOp = "updatePauseCountdown"
    /\ isPlaying /\ ~isPaused
    /\ endedDuration = 2
    /\ currentPauseMarkerRef = NULL

\* C31: with only togglePlayPause and ticks, the position is 0 at first and
\* moved by scroll ticks alone, so a position at or past the end of the
\* document means a play session has ended there; from then on no
\* togglePlayPause and no tick changes the position.
C31_ReplayAtEndStays ==
    [][scrollPositionRef >= MaxScroll(content)
       => scrollPositionRef' = scrollPositionRef]_vars

\* C32: a speed change or a jump during a pause session leaves the session
\* open with the same marker, the same start, the same remaining time shown
\* and its countdown scheduled; and whatever commands were issued, a
\* countdown tick ends the session exactly when the marker's declared
\* duration has elapsed since the session's start.
C32_PauseLengthFixed ==
    [][/\ (isPaused
           /\ lastOp' \in {"speedUp", "speedDown", "handleSpeedChange",
                           "jumpBackward", "jumpForward"})
          => /\ isPaused'
             /\ currentPauseMarkerRef' = currentPauseMarkerRef
             /\ now' - pauseStartTimeRef' = now - pauseStartTimeRef
             /\ pauseTimeRemaining' = pauseTimeRemaining
             /\ LiveCountdown(rafQueue')
       /\ (isPaused /\ lastOp' = "updatePauseCountdown")
          => LET a == Markers(markerDoc)[currentPauseMarkerRef].dataPause
             IN  ~isPaused'
                 <=> (now - pauseStartTimeRef) + lastDt' >= a.val
      ]_vars

\* the countdown has ended a session of 2 seconds after 2 seconds, with the
\* only marker of the content no longer at the reading line: a jump moved
\* the position during the session
C32_Witness ==
    /\ content = 2
    /\ lastOp = "updatePauseCountdown"
    /\ isPlaying /\ ~isPaused
    /\ endedElapsed = 2 /\ endedDuration = 2
    /\ ~Straddles(content, scrollTop, 1)

\* C33: togglePlayPause changes neither the position, the viewport offset
\* nor the speed; while not playing no frame changes the position; and the
\* first scroll tick after play leaves the position where it was, whatever
\* the time of that tick.
C33_ToggleKeepsPosition ==
    [][/\ lastOp' = "togglePlayPause"
          => /\ scrollPositionRef' = scrollPositionRef
             /\ scrollTop' = scrollTop
             /\ speed' = speed
       /\ (~isPlaying
           /\ lastOp' \in {"animate", "updatePauseCountdown", "staleFrame"})
          => scrollPositionRef' = scrollPositionRef
       /\ (lastOp' = "animate" /\ fresh /\ cmdFree)
          => scrollPositionRef' = scrollPositionRef
      ]_vars

\* play was pressed in the middle of the document and the first scroll
\* tick of the new session has run
C33_Witness ==
    /\ firstTick /\ lastOp = "animate"
    /\ cmdFree /\ opened = NoSessions
    /\ isPlaying /\ ~isPaused
    /\ scrollPositionRef > 0
    /\ scrollPositionRef < MaxScroll(content)

\* C34: the scroll position is never negative.
C34_PositionNeverNegative == scrollPositionRef >= 0

\* a jump back during a pause session has brought the position to 0: the
\* sessions open less than one jump's length from the top, so the jump was
\* cut off at 0
C34_Witness ==
    /\ lastOp = "jumpBackward"
    /\ isPaused /\ currentPauseMarkerRef # NULL
    /\ scrollPositionRef = 0

====
